---- MODULE Spec2Model ----
(***************************************************************************)
(* Model of src/main.go: the README generator.  One run of main is a       *)
(* straight-line pipeline: query the GraphQL API, build one                *)
(* latestProjectEntry per repository node, stable-sort the entries, render *)
(* one table row per entry with html/template, append header and rows to   *)
(* README-1.md and rename it to README.md.                                 *)
(*                                                                         *)
(* Text (Go strings, file contents) is a sequence of one-character         *)
(* strings.  Time is counted in whole seconds.                             *)
(***************************************************************************)
EXTENDS Integers, Sequences, FiniteSets, Bags, TLC

(* ------------------------------ bounds -------------------------------- *)
\* longest list of repository nodes a modelled query response holds
MaxNodes == 3
\* largest elapsed time, in minutes, tried on fmtDuration (above 24 hours)
MaxMinutes == 1442
\* largest clock skew, in minutes, by which pushedAt lies after time.Now()
MaxSkewMinutes == 61

(* -------------------------- program constants ------------------------- *)
latestRepoCnt == 5
enableSortByName == TRUE
originReadmeFile == "README-1.md"
finalReadmeFile == "README.md"

\* time.Second, time.Minute, time.Hour, with one second as the unit
Second == 1
Minute == 60 * Second
Hour == 60 * Minute

(* ------------------------------- text --------------------------------- *)
RECURSIVE Concat(_)
\* the concatenation of a sequence of texts
Concat(ss) == IF ss = <<>> THEN <<>> ELSE Head(ss) \o Concat(Tail(ss))

Digit(n) == <<"0", "1", "2", "3", "4", "5", "6", "7", "8", "9">>[n + 1]

RECURSIVE FmtNat(_)
\* decimal digits of a natural number
FmtNat(n) == IF n < 10 THEN <<Digit(n)>> ELSE Append(FmtNat(n \div 10), Digit(n % 10))

\* fmt's %d verb
FmtInt(n) == IF n < 0 THEN <<"-">> \o FmtNat(-n) ELSE FmtNat(n)

\* Go's integer division and remainder truncate toward zero
GoDiv(a, b) == IF a >= 0 THEN a \div b ELSE -((-a) \div b)
GoMod(a, b) == a - b * GoDiv(a, b)

(* ------------------------------ time ---------------------------------- *)
\* time.Duration.Round(m): to the nearest multiple of m, halves away from zero
DurationRound(d, m) ==
    IF m <= 0 THEN d
    ELSE LET r == GoMod(d, m) IN
         IF d < 0
         THEN IF (-r) + (-r) < m THEN d + (-r) ELSE d - m + (-r)
         ELSE IF r + r < m THEN d - r ELSE d + m - r

fmtDuration(d) ==
    LET h == GoDiv(d, Hour)
        d2 == d - h * Hour
        m == GoDiv(d2, Minute)
    IN FmtInt(h) \o <<" ", "h", "o", "u", "r", "s", " ">> \o FmtInt(m) \o <<" ", "m", "i", "n", "u", "t", "e", "s">>

\* lines 158-159: the Time field of an entry
ElapsedText(elapsed) == fmtDuration(DurationRound(elapsed, Minute))

(* --------------------------- the API response -------------------------- *)
\* one commit node of history(first: 1), lines 117-126
CommitNode(commitUrl, oid, login, url) ==
    [CommitUrl |-> commitUrl, AbbreviatedOid |-> oid, Login |-> login, Url |-> url]

\* one edge of refs(first: 1): the branch name and its history edges, lines 110-132
RefEdge(name, history) == [Name |-> name, History |-> history]

\* one element of Repositories.Nodes, lines 100-134
RepoNode(name, url, lang, pushedAt, refs) ==
    [Name |-> name, Url |-> url, PrimaryLanguage |-> lang, PushedAt |-> pushedAt,
     Refs |-> refs]

alice == <<"a", "l", "i", "c", "e">>
bob == <<"b", "o", "b">>

\* the clock readings time.Now() may return at line 145
ClockValues == {25 * Hour, 25 * Hour + 40 * Second}

\* the nodes a modelled response is built from: plain fields, fields with
\* characters html/template rewrites, an empty language, a push time after
\* the clock reading, and nodes without a branch edge or without a commit edge
NodePool ==
    { RepoNode(<<"f", "o", "o">>, <<"h", "/", "f", "o", "o">>, <<"G", "o">>, 25 * Hour - (3 * Hour + 15 * Minute),
               <<RefEdge(<<"m", "a", "i", "n">>, <<CommitNode(<<"h", "/", "f", "o", "o", "/", "c", "/", "1">>, <<"a", "b", "c", "1", "2", "3">>, alice, <<"h", "/", "a", "l", "i", "c", "e">>)>>)>>),
      RepoNode(<<"b", "a", "r">>, <<"h", "/", "b", "a", "r">>, <<"C", "+", "+">>, 10 * Second,
               <<RefEdge(<<"d", "e", "v">>, <<CommitNode(<<"h", "/", "b", "a", "r", "/", "c", "/", "2">>, <<"9", "f">>, bob, <<"h", "/", "b", "o", "b">>)>>)>>),
      RepoNode(<<"b", "a", "z">>, <<"h", "/", "b", "a", "z">>, <<>>, 25 * Hour - 29 * Second,
               <<RefEdge(<<"m", "a", "i", "n">>, <<CommitNode(<<"h", "/", "b", "a", "z", "/", "c", "/", "3">>, <<"0", "7">>, alice, <<"h", "/", "a", "l", "i", "c", "e">>)>>)>>),
      RepoNode(<<"q", "&", "a">>, <<"h", "/", "q", "&", "a">>, <<"u", "n", "k", "n", "o", "w", "n">>, 25 * Hour + 90 * Second,
               <<RefEdge(<<"a", "<", "b">>, <<CommitNode(<<"h", "/", "q", "&", "a", "/", "c", "/", "4">>, <<"e", "1">>, bob, <<"h", "/", "b", "o", "b">>)>>)>>),
      RepoNode(<<"n", "o", "b", "r", "a", "n", "c", "h">>, <<"h", "/", "n", "b">>, <<"G", "o">>, 24 * Hour, <<>>),
      RepoNode(<<"n", "o", "c", "o", "m", "m", "i", "t">>, <<"h", "/", "n", "c">>, <<"G", "o">>, 24 * Hour, <<RefEdge(<<"m", "a", "i", "n">>, <<>>)>>) }

Logins == {alice, bob}

\* sequences over S of length at most n
SeqUpTo(S, n) == UNION {[1..k -> S] : k \in 0..n}

Min(a, b) == IF a < b THEN a ELSE b

\* the decoded responses: a viewer login and at most latestRepoCnt nodes (line 135)
Responses ==
    [Login : Logins, Nodes : SeqUpTo(NodePool, Min(MaxNodes, latestRepoCnt))]

NoResponse == [Login |-> <<>>, Nodes |-> <<>>]

(* ------------------------------ entries ------------------------------- *)
\* Edges[0] of an empty edge array is an index out of range (lines 151-156)
WellFormed(repo) == repo.Refs # <<>> /\ repo.Refs[1].History # <<>>

\* the struct literal of lines 147-157, Time of 158-159, the default of 160-162
entryLiteral(repo, now) ==
    [RepoName |-> repo.Name,
     RepoUrl |-> repo.Url,
     RepoLang |-> repo.PrimaryLanguage,
     BranchName |-> repo.Refs[1].Name,
     BranchUrl |-> repo.Url \o <<"/", "t", "r", "e", "e", "/">> \o repo.Refs[1].Name,
     CommitUrl |-> repo.Refs[1].History[1].CommitUrl,
     CommitID |-> repo.Refs[1].History[1].AbbreviatedOid,
     CommitAuthorID |-> repo.Refs[1].History[1].Login,
     CommitAuthorUrl |-> repo.Refs[1].History[1].Url,
     Time |-> ElapsedText(now - repo.PushedAt)]

\* mutant: the default of lines 160-162 left out
entryWithoutDefault(repo, now) == entryLiteral(repo, now)

latestProjectEntry(repo, now) ==
    LET entry == entryLiteral(repo, now)
    IN IF entry.RepoLang = <<>> THEN [entry EXCEPT !.RepoLang = <<"u", "n", "k", "n", "o", "w", "n">>] ELSE entry

(* ------------------------------- order -------------------------------- *)
\* mutants of the comparator: the operands exchanged; the second conjunct lost
lessReversed(data, login, i, j) ==
    data[i + 1].CommitAuthorID # login /\ data[j + 1].CommitAuthorID = login

lessNoSecond(data, login, i, j) == data[i + 1].CommitAuthorID = login

\* the comparator of line 167; i and j index from 0 as in the source
less(data, login, i, j) ==
    data[i + 1].CommitAuthorID = login /\ data[j + 1].CommitAuthorID # login

Swap(data, i, j) == [data EXCEPT ![i + 1] = data[j + 1], ![j + 1] = data[i + 1]]

RECURSIVE SiftDown(_, _, _, _)
\* for j := i; j > a && less(j, j-1); j-- { swap(j, j-1) }
SiftDown(data, login, j, a) ==
    IF j > a /\ less(data, login, j, j - 1)
    THEN SiftDown(Swap(data, j, j - 1), login, j - 1, a)
    ELSE data

RECURSIVE InsertFrom(_, _, _, _, _)
\* for i := a + 1; i < b; i++ { ... }
InsertFrom(data, login, i, a, b) ==
    IF i < b THEN InsertFrom(SiftDown(data, login, i, a), login, i + 1, a, b) ELSE data

\* sort.SliceStable on at most 20 elements is one insertion sort of the
\* whole slice; a response holds at most latestRepoCnt = 5 nodes
SliceStable(data, login) == InsertFrom(data, login, 1, 0, Len(data))

(* ------------------------------ render -------------------------------- *)
Text(s) == [kind |-> "text", text |-> s]
Field(name) == [kind |-> "field", field |-> name]

markdownTableTmpl ==
    << Text(<<"|", " ", "[">>), Field("RepoName"), Text(<<"]", "(">>), Field("RepoUrl"),
       Text(<<")", " ", "|", " ", "[">>), Field("BranchName"), Text(<<"]", "(">>), Field("BranchUrl"),
       Text(<<")", " ", "|", "[">>), Field("CommitID"), Text(<<"]", "(">>), Field("CommitUrl"),
       Text(<<")", " ", "|", " ", "[", "@">>), Field("CommitAuthorID"), Text(<<"]", "(">>), Field("CommitAuthorUrl"),
       Text(<<")", " ", "|">>), Field("Time"),
       Text(<<" ", "|", " ", "!", "[", "]", "(", "h", "t", "t", "p", "s", ":", "/", "/", "i", "m", "g", ".", "s", "h", "i", "e", "l", "d", "s", ".", "i", "o", "/", "b", "a", "d", "g", "e", "/", "l", "a", "n", "g", "u", "a", "g", "e", "-">>), Field("RepoLang"),
       Text(<<"-", "d", "e", "f", "a", "u", "l", "t", ".", "s", "v", "g", "?", "s", "t", "y", "l", "e", "=", "f", "l", "a", "t", "-", "s", "q", "u", "a", "r", "e", ")", "|", "\n">>) >>

markdownTableHeaderTmpl ==
    <<"\n", "|", " ", "r", "e", "p", "o", " ", "|", " ", "b", "r", "a", "n", "c", "h", " ", "|", " ", "c", "o", "m", "m", "i", "t", " ", "|", " ", "a", "u", "t", "h", "o", "r", " ", "|", " ", "t", "i", "m", "e", " ", "s", "i", "n", "c", "e", " ", "|", " ", "l", "a", "n", "g", "u", "a", "g", "e", " ", "|", "\n", "|", ":", "-", "-", "-", ":", "|", ":", "-", "-", "-", ":", "|", ":", "-", "-", "-", ":", "|", ":", "-", "-", "-", ":", "|", ":", "-", "-", "-", ":", "|", ":", "-", "-", "-", ":", "|", "\n">>

\* html/template's replacement table for a value in HTML text context
htmlReplacement(c) ==
    CASE c = "\"" -> <<"&", "#", "3", "4", ";">>
      [] c = "&" -> <<"&", "a", "m", "p", ";">>
      [] c = "'" -> <<"&", "#", "3", "9", ";">>
      [] c = "+" -> <<"&", "#", "4", "3", ";">>
      [] c = "<" -> <<"&", "l", "t", ";">>
      [] c = ">" -> <<"&", "g", "t", ";">>
      [] OTHER -> <<c>>

\* the escaper html/template adds to every {{.Field}} of a template without tags
htmlEscaper(s) == Concat([i \in 1..Len(s) |-> htmlReplacement(s[i])])

\* the template's text with each field replaced by its value in values
Substitute(tmpl, values) ==
    Concat([i \in 1..Len(tmpl) |->
              IF tmpl[i].kind = "text" THEN tmpl[i].text ELSE values[tmpl[i].field]])

\* lines 197-205: t is html/template's Template; every value goes through the escaper
Execute(tmpl, v) == Substitute(tmpl, [k \in DOMAIN v |-> htmlEscaper(v[k])])

(* ---------------------------- file system ----------------------------- *)
NoFile == [exists |-> FALSE, writable |-> FALSE, content |-> <<>>]
File(content, writable) == [exists |-> TRUE, writable |-> writable, content |-> content]

\* the working directory before the run: README-1.md missing, read-only or
\* writable with some prior content; README.md missing or left by an earlier run
InitialDirs ==
    [ {originReadmeFile, finalReadmeFile} ->
        {NoFile, File(<<>>, TRUE), File(<<"#", " ", "H", "i", "\n">>, TRUE), File(<<"#", " ", "H", "i", "\n">>, FALSE)} ]

\* os.OpenFile(name, O_WRONLY|O_APPEND, 0755) succeeds on an existing writable file
Openable(file) == file.exists /\ file.writable

NilFile == "nil"

(* ------------------------------- state -------------------------------- *)
VARIABLES
    pc,          \* the statement main is at
    exitCode,    \* the process's exit status once it has ended
    fault,       \* why the run panicked: "none", "query" or "index"
    queryCount,  \* the number of client.Query calls made
    query,       \* the decoded response
    baseTime,    \* time.Now() of line 145
    result,      \* fetchLatestProjects's result slice
    r,           \* main's r
    rendered,    \* the number of entries main's loop has executed the template on
    buf,         \* main's buf
    fs,          \* the directory: file name -> file
    f,           \* main's f: NilFile or the name the opened file now has
    fsLog,       \* the file system calls made so far, in order
    fs0,         \* the directory as it was when the run started
    dur,         \* fmtDuration's argument source: baseTime.Sub(repo.PushedAt)
    durText      \* the text of that duration, once formatted

vars == <<pc, exitCode, fault, queryCount, query, baseTime, result, r, rendered, buf,
          fs, f, fsLog, fs0, dur, durText>>

NotFormatted == <<"?">>

Init ==
    /\ pc = "query"
    /\ exitCode = -1
    /\ fault = "none"
    /\ queryCount = 0
    /\ query = NoResponse
    /\ baseTime = 0
    /\ result = <<>>
    /\ r = <<>>
    /\ rendered = 0
    /\ buf = <<>>
    /\ fs0 \in InitialDirs
    /\ fs = fs0
    /\ f = NilFile
    /\ fsLog = <<>>
    /\ dur = 0
    /\ durText = NotFormatted

\* a Go panic that nothing recovers: the process ends with status 2
Panic(why) ==
    /\ pc' = "panicked"
    /\ exitCode' = 2
    /\ fault' = why

(* ----------------------- fetchLatestProjects -------------------------- *)
\* mutant: the error of client.Query dropped, the run goes on with no nodes
QueryFailIgnored ==
    /\ pc = "query"
    /\ queryCount' = queryCount + 1
    /\ pc' = "parse"
    /\ fault' = "query"
    /\ \E now \in ClockValues : baseTime' = now
    /\ UNCHANGED <<exitCode, query, result, r, rendered, buf, fs, f, fsLog, fs0, dur, durText>>

\* lines 138-141: client.Query returns an error
QueryFail ==
    /\ pc = "query"
    /\ queryCount' = queryCount + 1
    /\ Panic("query")
    /\ UNCHANGED <<query, baseTime, result, r, rendered, buf, fs, f, fsLog, fs0, dur, durText>>

\* lines 138-145: client.Query fills query; result is nil; baseTime is read
QueryOk ==
    /\ pc = "query"
    /\ queryCount' = queryCount + 1
    /\ \E resp \in Responses : query' = resp
    /\ \E now \in ClockValues : baseTime' = now
    /\ result' = <<>>
    /\ pc' = "parse"
    /\ UNCHANGED <<exitCode, fault, r, rendered, buf, fs, f, fsLog, fs0, dur, durText>>

\* the node the loop of line 146 is at
NextNode == query.Nodes[Len(result) + 1]

\* mutant: a missing edge read as a zero value instead of a panic
ParseLenient ==
    /\ pc = "parse"
    /\ Len(result) < Len(query.Nodes)
    /\ ~WellFormed(NextNode)
    /\ result' = Append(result,
                        [RepoName |-> NextNode.Name, RepoUrl |-> NextNode.Url,
                         RepoLang |-> NextNode.PrimaryLanguage,
                         BranchName |-> <<>>, BranchUrl |-> <<>>, CommitUrl |-> <<>>,
                         CommitID |-> <<>>, CommitAuthorID |-> <<>>,
                         CommitAuthorUrl |-> <<>>,
                         Time |-> ElapsedText(baseTime - NextNode.PushedAt)])
    /\ UNCHANGED <<pc, exitCode, fault, queryCount, query, baseTime, r, rendered, buf,
                   fs, f, fsLog, fs0, dur, durText>>

\* lines 151-156: Edges[0] of an empty edge array panics
ParseFault ==
    /\ pc = "parse"
    /\ Len(result) < Len(query.Nodes)
    /\ ~WellFormed(NextNode)
    /\ Panic("index")
    /\ UNCHANGED <<queryCount, query, baseTime, result, r, rendered, buf, fs, f, fsLog,
                   fs0, dur, durText>>

\* lines 146-164: one iteration of the loop on a node with branch and commit
ParseNode ==
    /\ pc = "parse"
    /\ Len(result) < Len(query.Nodes)
    /\ WellFormed(NextNode)
    /\ result' = Append(result, latestProjectEntry(NextNode, baseTime))
    /\ UNCHANGED <<pc, exitCode, fault, queryCount, query, baseTime, r, rendered, buf,
                   fs, f, fsLog, fs0, dur, durText>>

\* lines 165-171 and 192: the loop is over; sort in place and return to main
SortAndReturn ==
    /\ pc = "parse"
    /\ Len(result) = Len(query.Nodes)
    /\ result' = IF enableSortByName THEN SliceStable(result, query.Login) ELSE result
    /\ r' = result'
    /\ pc' = "render"
    /\ UNCHANGED <<exitCode, fault, queryCount, query, baseTime, rendered, buf,
                   fs, f, fsLog, fs0, dur, durText>>

(* ------------------------------- main --------------------------------- *)
\* lines 196-206: one iteration: parse the row template, execute it into buf
RenderRow ==
    /\ pc = "render"
    /\ rendered < Len(r)
    /\ buf' = buf \o Execute(markdownTableTmpl, r[rendered + 1])
    /\ rendered' = rendered + 1
    /\ UNCHANGED <<pc, exitCode, fault, queryCount, query, baseTime, result, r,
                   fs, f, fsLog, fs0, dur, durText>>

Call(op, name, ok) == [op |-> op, name |-> name, ok |-> ok]

\* line 209: the error of os.OpenFile is dropped; f is nil when it failed
OpenFile ==
    /\ pc = "render"
    /\ rendered = Len(r)
    /\ f' = IF Openable(fs[originReadmeFile]) THEN originReadmeFile ELSE NilFile
    /\ fsLog' = Append(fsLog, Call("open", originReadmeFile, Openable(fs[originReadmeFile])))
    /\ pc' = "header"
    /\ UNCHANGED <<exitCode, fault, queryCount, query, baseTime, result, r, rendered, buf,
                   fs, fs0, dur, durText>>

\* f.Write on a nil *os.File returns ErrInvalid, which main drops; on an open
\* file in append mode the bytes go to the end of the file f refers to
WriteTo(data) ==
    /\ fs' = IF f = NilFile THEN fs
             ELSE [fs EXCEPT ![f].content = fs[f].content \o data]
    /\ fsLog' = Append(fsLog, Call("write", f, f # NilFile))

\* mutant: the header written only when there are rows
WriteHeaderUnlessEmpty ==
    /\ pc = "header"
    /\ IF r = <<>> THEN UNCHANGED <<fs, fsLog>> ELSE WriteTo(markdownTableHeaderTmpl)
    /\ pc' = "rows"
    /\ UNCHANGED <<exitCode, fault, queryCount, query, baseTime, result, r, rendered, buf,
                   f, fs0, dur, durText>>

\* line 211
WriteHeader ==
    /\ pc = "header"
    /\ WriteTo(markdownTableHeaderTmpl)
    /\ pc' = "rows"
    /\ UNCHANGED <<exitCode, fault, queryCount, query, baseTime, result, r, rendered, buf,
                   f, fs0, dur, durText>>

\* line 212
WriteRows ==
    /\ pc = "rows"
    /\ WriteTo(buf)
    /\ pc' = "rename"
    /\ UNCHANGED <<exitCode, fault, queryCount, query, baseTime, result, r, rendered, buf,
                   f, fs0, dur, durText>>

\* line 213: os.Rename moves the file, replacing README.md; its error (no
\* README-1.md) is dropped.  An open file stays open under its new name.
Rename ==
    /\ pc = "rename"
    /\ IF fs[originReadmeFile].exists
       THEN /\ fs' = [fs EXCEPT ![finalReadmeFile] = fs[originReadmeFile],
                                ![originReadmeFile] = NoFile]
            /\ f' = IF f = originReadmeFile THEN finalReadmeFile ELSE f
       ELSE UNCHANGED <<fs, f>>
    /\ fsLog' = Append(fsLog, Call("rename", originReadmeFile, fs[originReadmeFile].exists))
    /\ pc' = "return"
    /\ UNCHANGED <<exitCode, fault, queryCount, query, baseTime, result, r, rendered, buf,
                   fs0, dur, durText>>

\* lines 210 and 214: main returns, the deferred f.Close() runs, exit status 0
Return ==
    /\ pc = "return"
    /\ f' = NilFile
    /\ pc' = "done"
    /\ exitCode' = 0
    /\ UNCHANGED <<fault, queryCount, query, baseTime, result, r, rendered, buf,
                   fs, fsLog, fs0, dur, durText>>

Next ==
    \/ QueryFail
    \/ QueryOk
    \/ ParseFault
    \/ ParseNode
    \/ SortAndReturn
    \/ RenderRow
    \/ OpenFile
    \/ WriteHeader
    \/ WriteRows
    \/ Rename
    \/ Return

Spec == Init /\ [][Next]_vars

(* ------------- the elapsed time of one node, on its own --------------- *)
\* baseTime.Sub(repo.PushedAt) of line 158 ranges over a day and more, and
\* over push times up to an hour after the clock reading
InitDur ==
    /\ pc = "elapsed"
    /\ exitCode = -1
    /\ fault = "none"
    /\ queryCount = 0
    /\ query = NoResponse
    /\ baseTime = 0
    /\ result = <<>>
    /\ r = <<>>
    /\ rendered = 0
    /\ buf = <<>>
    /\ fs0 = [n \in {originReadmeFile, finalReadmeFile} |-> NoFile]
    /\ fs = fs0
    /\ f = NilFile
    /\ fsLog = <<>>
    /\ dur \in (0 - MaxSkewMinutes * Minute) .. (MaxMinutes * Minute)
    /\ durText = NotFormatted

\* lines 158-159
FormatElapsed ==
    /\ pc = "elapsed"
    /\ durText' = ElapsedText(dur)
    /\ pc' = "formatted"
    /\ UNCHANGED <<exitCode, fault, queryCount, query, baseTime, result, r, rendered, buf,
                   fs, f, fsLog, fs0, dur>>

NextDur == FormatElapsed

SpecDur == InitDur /\ [][NextDur]_vars

(* ============================== claims ================================ *)
Staging0 == fs0[originReadmeFile]
Readme0 == fs0[finalReadmeFile]

IsViewer(entry) == entry.CommitAuthorID = query.Login
AuthoredByViewer(repo) == repo.Refs[1].History[1].Login = query.Login

\* main holds the ordered entries
AfterOrder == pc \in {"render", "header", "rows", "rename", "return", "done"}

AllWellFormed == \A i \in 1..Len(query.Nodes) : WellFormed(query.Nodes[i])

\* the entries of the response's nodes, in the response's order
NodeEntries == [i \in 1..Len(query.Nodes) |-> latestProjectEntry(query.Nodes[i], baseTime)]

\* the viewer's entries first, each group in the response's order
OrderedEntries ==
    SelectSeq(NodeEntries, IsViewer) \o SelectSeq(NodeEntries, LAMBDA e : ~IsViewer(e))

RowsOf(entries) == Concat([i \in 1..Len(entries) |-> Execute(markdownTableTmpl, entries[i])])

\* C1: a run that starts with an openable README-1.md holding P and gets N
\* well-formed nodes ends with README.md = P + header + the N rows of the
\* ordered entries (the header once, also for N = 0) and without README-1.md
C1_EndToEnd ==
    (pc = "done" /\ Openable(Staging0)) =>
        /\ AllWellFormed
        /\ fs[finalReadmeFile].exists
        /\ fs[finalReadmeFile].content =
              Staging0.content \o markdownTableHeaderTmpl \o RowsOf(OrderedEntries)
        /\ ~fs[originReadmeFile].exists

C1_Witness ==
    /\ pc = "done"
    /\ Openable(Staging0)
    /\ Staging0.content # <<>>
    /\ Readme0.exists
    /\ Len(query.Nodes) = 3
    /\ r # NodeEntries

C1_WitnessNoNodes ==
    pc = "done" /\ Openable(Staging0) /\ Staging0.content # <<>> /\ query.Nodes = <<>>

\* the open of line 209 has been made and failed
OpenFailed == \E i \in 1..Len(fsLog) : fsLog[i].op = "open" /\ ~fsLog[i].ok

\* C2: when README-1.md cannot be opened the run aborts: it never ends
\* successfully and README.md is neither created nor changed
C2_OpenFailureAborts ==
    OpenFailed => /\ ~(pc = "done" /\ exitCode = 0)
                  /\ fs[finalReadmeFile] = Readme0

\* C2, what the code does: the run ends with status 0; a missing README-1.md
\* leaves the directory as it was, a read-only one becomes README.md as it is
C2_OpenFailureIgnored ==
    (OpenFailed /\ pc = "done") =>
        /\ exitCode = 0
        /\ ~Staging0.exists => fs = fs0
        /\ Staging0.exists => /\ fs[finalReadmeFile] = Staging0
                              /\ ~fs[originReadmeFile].exists

C2_Witness == OpenFailed /\ pc = "done" /\ Staging0.exists /\ Readme0.exists

\* C3: a failed query ends the run at once with a failure status: one query
\* call, no retry, nothing rendered, both files as they were
C3_QueryFailureIsFatal ==
    /\ queryCount <= 1
    /\ fault = "query" =>
          /\ pc = "panicked"
          /\ exitCode = 2
          /\ queryCount = 1
          /\ result = <<>> /\ r = <<>> /\ buf = <<>>
          /\ fs = fs0
          /\ fsLog = <<>>

C3_Witness ==
    fault = "query" /\ pc = "panicked" /\ Openable(Staging0) /\ Readme0.exists

\* C4: after the order stage every entry of the viewer is at a lower index
\* than every entry of somebody else
C4_ViewerFirst ==
    AfterOrder =>
        \A i, j \in 1..Len(r) : (IsViewer(r[i]) /\ ~IsViewer(r[j])) => i < j

C4_Witness ==
    /\ AfterOrder
    /\ Len(query.Nodes) = 3
    /\ ~AuthoredByViewer(query.Nodes[1])
    /\ AuthoredByViewer(query.Nodes[2])
    /\ ~AuthoredByViewer(query.Nodes[3])

EntryKey(entry) == <<entry.RepoName, entry.CommitID>>
NodeKey(repo) == <<repo.Name, repo.Refs[1].History[1].AbbreviatedOid>>
EntryKeys(seq) == [i \in 1..Len(seq) |-> EntryKey(seq[i])]
NodeKeys(seq) == [i \in 1..Len(seq) |-> NodeKey(seq[i])]

\* C5: the order stage is stable: the viewer's entries keep the order their
\* nodes had in the response, and so do the other entries
C5_Stable ==
    AfterOrder =>
        \A own \in BOOLEAN :
            EntryKeys(SelectSeq(r, LAMBDA e : IsViewer(e) = own))
              = NodeKeys(SelectSeq(query.Nodes, LAMBDA n : AuthoredByViewer(n) = own))

C5_Witness ==
    /\ AfterOrder
    /\ Len(query.Nodes) = 3
    /\ AuthoredByViewer(query.Nodes[1])
    /\ AuthoredByViewer(query.Nodes[2])
    /\ query.Nodes[1] # query.Nodes[2]
    /\ ~AuthoredByViewer(query.Nodes[3])

\* the entry carries the node's name and URL, and its language or "unknown"
EntryOfNode(entry, repo) ==
    /\ entry.RepoName = repo.Name
    /\ entry.RepoUrl = repo.Url
    /\ entry.RepoLang = IF repo.PrimaryLanguage = <<>> THEN <<"u", "n", "k", "n", "o", "w", "n">>
                        ELSE repo.PrimaryLanguage

\* C6: fetchLatestProjects returns one entry per node, none dropped, doubled
\* or invented: some one-to-one matching pairs every entry with a node whose
\* name, URL and language (or "unknown") it carries
C6_OneEntryPerNode ==
    /\ pc = "parse" =>
          /\ Len(result) <= Len(query.Nodes)
          /\ \A i \in 1..Len(result) : EntryOfNode(result[i], query.Nodes[i])
    /\ AfterOrder =>
          /\ Len(r) = Len(query.Nodes)
          /\ \E p \in Permutations(1..Len(r)) :
                \A i \in 1..Len(r) : EntryOfNode(r[p[i]], query.Nodes[i])

C6_Witness ==
    /\ AfterOrder
    /\ Len(r) = 3
    /\ \E i \in 1..3 : query.Nodes[i].PrimaryLanguage = <<>>
    /\ \E i \in 1..3 : r[i].RepoName # query.Nodes[i].Name

\* the whole minutes nearest to a duration (either neighbour at a half)
NearestMinutes(d) == {t \in {d \div Minute, d \div Minute + 1} :
                         2 * (IF t * Minute >= d THEN t * Minute - d ELSE d - t *Minute) <= Minute}

HoursMinutes(t) ==
    FmtNat(t \div 60) \o <<" ", "h", "o", "u", "r", "s", " ">> \o FmtNat(t % 60) \o <<" ", "m", "i", "n", "u", "t", "e", "s">>

\* C7: whatever the push time is relative to the clock, the elapsed time is
\* the difference rounded to the nearest minute, is not negative, and prints
\* as "<H> hours <M> minutes" with H >= 0 the whole hours and M in 0..59
C7_ElapsedNonNegative ==
    pc = "formatted" =>
        \E t \in NearestMinutes(dur) : t >= 0 /\ durText = HoursMinutes(t)

\* C7, what the code does: the claim holds of every push time that is not
\* after the clock reading
C7_ElapsedOfPastPush ==
    (pc = "formatted" /\ dur >= 0) =>
        \E t \in NearestMinutes(dur) : t >= 0 /\ durText = HoursMinutes(t)

C7_Witness == pc = "formatted" /\ dur > 24 * Hour /\ dur % Minute = 30 * Second

\* C8: every rendered row is the documented row with each field's value in
\* its slot character for character, nothing escaped
C8_RowsVerbatim ==
    (pc = "render" /\ rendered = Len(r)) =>
        buf = Concat([i \in 1..Len(r) |-> Substitute(markdownTableTmpl, r[i])])

\* C8, what the code does: the rows are the documented rows with each value
\* escaped as HTML text
C8_RowsEscaped ==
    (pc = "render" /\ rendered = Len(r)) =>
        buf = Concat([i \in 1..Len(r) |-> Substitute(markdownTableTmpl, [k \in DOMAIN r[i] |-> htmlEscaper(r[i][k])])])

HasMalformedNode == \E i \in 1..Len(query.Nodes) : ~WellFormed(query.Nodes[i])
FirstMalformed == CHOOSE i \in 1..Len(query.Nodes) :
                     /\ ~WellFormed(query.Nodes[i])
                     /\ \A k \in 1..(i - 1) : WellFormed(query.Nodes[k])

\* C9: a node without a branch edge or without a commit edge, at whatever
\* position, makes the run fault in the transform stage: it never gets past
\* that node, returns no entries, renders nothing and touches no file
C9_EmptyEdgesFault ==
    /\ HasMalformedNode =>
          /\ pc \in {"parse", "panicked"}
          /\ Len(result) < FirstMalformed
          /\ r = <<>> /\ buf = <<>>
          /\ fs = fs0
          /\ fsLog = <<>>
    /\ fault = "index" =>
          /\ pc = "panicked"
          /\ exitCode = 2
          /\ HasMalformedNode
          /\ Len(result) = FirstMalformed - 1

C9_Witness ==
    /\ fault = "index"
    /\ pc = "panicked"
    /\ Len(result) = 2
    /\ Len(query.Nodes) = 3
    /\ Openable(Staging0)

\* C10: in every run the rename happens at most once, as the last file system
\* action, and only after the header and all rows have been appended to
\* README-1.md; README.md never holds the header with only some of the rows;
\* nothing is appended to README.md itself
C10_RenameAfterAppends ==
    /\ \A i \in 1..Len(fsLog) :
          (fsLog[i].op = "rename" /\ fsLog[i].ok) =>
              /\ i = Len(fsLog)
              /\ \E h, w \in 1..(i - 1) :
                    /\ h < w
                    /\ fsLog[h] = Call("write", originReadmeFile, TRUE)
                    /\ fsLog[w] = Call("write", originReadmeFile, TRUE)
              /\ fs[finalReadmeFile].content =
                    Staging0.content \o markdownTableHeaderTmpl \o RowsOf(r)
    /\ \A i \in 1..Len(fsLog) : ~(fsLog[i].op = "write" /\ fsLog[i].name = finalReadmeFile)
    /\ \A k \in 0..(Len(r) - 1) :
          fs[finalReadmeFile].content #
              Staging0.content \o markdownTableHeaderTmpl \o RowsOf(SubSeq(r, 1, k))

\* C10, what the code does: the same, with the two appends attempted before
\* the rename, done or failed
C10_RenameAfterWriteCalls ==
    /\ \A i \in 1..Len(fsLog) :
          fsLog[i].op = "rename" =>
              /\ i = Len(fsLog)
              /\ i = 4
              /\ fsLog[1].op = "open" /\ fsLog[2].op = "write" /\ fsLog[3].op = "write"
    /\ \A i \in 1..Len(fsLog) : ~(fsLog[i].op = "write" /\ fsLog[i].name = finalReadmeFile)
====
